---- MODULE Spec2Model ----
(***************************************************************************)
(* Engraving configurator (web/app/configurator/page.tsx): the scene of    *)
(* items, the containment validator, the gesture commit resolver and the   *)
(* SVG exporter.                                                           *)
(*                                                                         *)
(* Numbers.  The program computes in IEEE doubles.  Here every length is   *)
(* an integer count of 1/100 mm (0.4 mm is 40, 500 mm is 50000), a device  *)
(* coordinate is an integer count of 1/100 px, and a scale factor is an    *)
(* integer count of hundredths (1.0 is 100, 0.5 is 50).  A product         *)
(* length * scale is floored to 1/100 mm.                                  *)
(*                                                                         *)
(* Strings that the program escapes (text, fontFamily) are sequences of    *)
(* one-character strings; all other strings are atoms.                     *)
(***************************************************************************)
EXTENDS Integers, Sequences, FiniteSets, TLC

VARIABLES
    items,        \* useState<Item[]>: the scene, back to front
    selectedId,   \* useState<string | null>
    nextId,       \* the next identifier uuid() hands out
    call,         \* the handler that ran last, with its arguments: the node and scales of
                  \* commitTransform, the node and position of onDragEnd, the direction
                  \* of moveSelected
    out,          \* what the handler that ran last emitted (alert, console.log)
    edits         \* number of attribute edits, drags and gesture commits so far

vars == <<items, selectedId, nextId, call, out, edits>>

(***************************************************************************)
(* Bounds of the model                                                     *)
(***************************************************************************)
MaxIds == 2          \* identifiers handed out in one run (the initial text included)
MaxEdits == 2        \* attribute edits + drags + gesture commits in one run
MaxAdds == 2         \* adds in one run of the add-only program
MaxLen == 2          \* length of the scenes the validator is probed with
MaxScene == 3        \* items of a scene in the stacking program

(***************************************************************************)
(* Constants of the program                                                *)
(***************************************************************************)
MM_TO_PX == 4

PRODUCT ==
    [ code      |-> "PRKENKO_01",
      canvasMm  |-> [w |-> 30000, h |-> 20000],
      engraveMm |-> [x |-> 7000, y |-> 4000, w |-> 16000, h |-> 9000, margin |-> 500],
      minFontMm |-> 300,
      maxFontMm |-> 4000 ]

BLACK == "#000000"

\* `undefined`, the value of an object property that is set to undefined
Undefined == "undefined"
\* `null`, the selection when nothing is selected
Null == 0

OrnamentKinds == {"heart", "wreath", "star"}

\* ORNAMENTS.find((o) => o.kind === kind).path, the outline as an atom
OrnamentPath(kind) ==
    CASE kind = "heart"  -> "M 10 30 C 10 10 30 10 30 20 C 30 10 50 10 50 30 C 50 45 30 55 30 55 C 30 55 10 45 10 30 Z"
      [] kind = "wreath" -> "M 50 30 A 20 20 0 1 1 49.9 30 Z M 50 30 A 12 12 0 1 0 49.9 30 Z"
      [] kind = "star"   -> "M 30 5 L 37 22 L 55 22 L 40 33 L 46 50 L 30 40 L 14 50 L 20 33 L 5 22 L 23 22 Z"

(***************************************************************************)
(* Pure helpers                                                            *)
(***************************************************************************)
Min2(a, b) == IF a <= b THEN a ELSE b
Max2(a, b) == IF a >= b THEN a ELSE b

\* mm(v): millimetres to device pixels
mm(v) == v * MM_TO_PX
\* pxToMm(v): device pixels to millimetres
pxToMm(v) == v \div MM_TO_PX

\* clamp(v, min, max) = Math.max(min, Math.min(max, v))
clamp(v, min, max) == Max2(min, Min2(max, v))

\* length * scale factor, the factor in hundredths
Scaled(v, s) == (v * s) \div 100

\* s.replaceAll(ch, rep) on a sequence of characters
RECURSIVE replaceAll(_, _, _)
replaceAll(s, ch, rep) ==
    IF s = <<>> THEN <<>>
    ELSE (IF Head(s) = ch THEN rep ELSE <<Head(s)>>) \o replaceAll(Tail(s), ch, rep)

\* the mutant: the ampersand replaced last, after the entities were written
escapeXmlAmpLast(s) ==
    replaceAll(
      replaceAll(
        replaceAll(
          replaceAll(
            replaceAll(s, "<", <<"&", "l", "t", ";">>),
            ">", <<"&", "g", "t", ";">>),
          "\"", <<"&", "q", "u", "o", "t", ";">>),
        "'", <<"&", "a", "p", "o", "s", ";">>),
      "&", <<"&", "a", "m", "p", ";">>)

escapeXml(s) ==
    replaceAll(
      replaceAll(
        replaceAll(
          replaceAll(
            replaceAll(s, "&", <<"&", "a", "m", "p", ";">>),
            "<", <<"&", "l", "t", ";">>),
          ">", <<"&", "g", "t", ";">>),
        "\"", <<"&", "q", "u", "o", "t", ";">>),
      "'", <<"&", "a", "p", "o", "s", ";">>)

\* { ...it, ...patch }
Spread(it, patch) ==
    [k \in (DOMAIN it) \cup (DOMAIN patch) |-> IF k \in DOMAIN patch THEN patch[k] ELSE it[k]]

\* it.k ?? d for a colour: the property when it is present and not undefined, else d
OrElse(it, k, d) == IF k \in DOMAIN it /\ it[k] # Undefined THEN it[k] ELSE d
\* it.k ?? d for a number, which no handler ever sets to undefined
NumOrElse(it, k, d) == IF k \in DOMAIN it THEN it[k] ELSE d

\* p.findIndex((i) => i.id === id), 0 when there is none
FindIndex(p, id) ==
    IF \E k \in 1..Len(p) : p[k].id = id
    THEN CHOOSE k \in 1..Len(p) : p[k].id = id /\ \A j \in 1..(k - 1) : p[j].id # id
    ELSE 0

\* p.filter((i) => keep(i)) for keep = "id differs from id"
RECURSIVE FilterOut(_, _)
FilterOut(p, id) ==
    IF p = <<>> THEN <<>>
    ELSE (IF Head(p).id # id THEN <<Head(p)>> ELSE <<>>) \o FilterOut(Tail(p), id)

Ids(p) == {p[k].id : k \in 1..Len(p)}

\* const selected = items.find((i) => i.id === selectedId) ?? null
HasSelected == FindIndex(items, selectedId) # 0
selected == items[FindIndex(items, selectedId)]

(***************************************************************************)
(* Text constants.  A letter with a diacritic is written as its base       *)
(* letter: escapeXml treats both alike, neither is one of & < > " '.       *)
(***************************************************************************)
TextLenkaTomas == <<"L", "e", "n", "k", "a", " ", "&", " ", "T", "o", "m", "a", "s">>
TextNapiste ==
    <<"N", "a", "p", "i", "s", "t", "e", " ", "v", "l", "a", "s", "t", "n", "i", " ", "t", "e", "x", "t">>
FontPlayfair == <<"P", "l", "a", "y", "f", "a", "i", "r", " ", "D", "i", "s", "p", "l", "a", "y">>
FontInter == <<"I", "n", "t", "e", "r">>

(***************************************************************************)
(* Items as the add handlers build them                                    *)
(***************************************************************************)
InitialText(id) ==
    [ id |-> id, type |-> "text", text |-> TextLenkaTomas,
      x |-> PRODUCT.engraveMm.x + 1000, y |-> PRODUCT.engraveMm.y + 2500,
      fontFamily |-> FontPlayfair, fontSizeMm |-> 1200, fontStyle |-> "bold",
      align |-> "left", fill |-> BLACK, stroke |-> Undefined, strokeWidthMm |-> 0 ]

NewText(id) ==
    [ id |-> id, type |-> "text", text |-> TextNapiste,
      x |-> PRODUCT.engraveMm.x + PRODUCT.engraveMm.margin + 500,
      y |-> PRODUCT.engraveMm.y + PRODUCT.engraveMm.margin + 1500,
      fontFamily |-> FontInter, fontSizeMm |-> 1000, fontStyle |-> "normal",
      align |-> "left", fill |-> BLACK, stroke |-> Undefined, strokeWidthMm |-> 0 ]

\* the mutant: the default placement measured from the canvas, not from the region
NewRectAtCanvas(id) ==
    [ id |-> id, type |-> "rect", x |-> 1000, y |-> 1000,
      w |-> 4000, h |-> 2000, stroke |-> BLACK, strokeWidthMm |-> 40,
      fillEnabled |-> FALSE, fill |-> BLACK ]

NewRect(id) ==
    [ id |-> id, type |-> "rect",
      x |-> PRODUCT.engraveMm.x + 1000, y |-> PRODUCT.engraveMm.y + 1000,
      w |-> 4000, h |-> 2000, stroke |-> BLACK, strokeWidthMm |-> 40,
      fillEnabled |-> FALSE, fill |-> BLACK ]

NewCircle(id) ==
    [ id |-> id, type |-> "circle",
      x |-> PRODUCT.engraveMm.x + 3000, y |-> PRODUCT.engraveMm.y + 3000,
      r |-> 1200, stroke |-> BLACK, strokeWidthMm |-> 40,
      fillEnabled |-> FALSE, fill |-> BLACK ]

NewLine(id) ==
    [ id |-> id, type |-> "line",
      x |-> PRODUCT.engraveMm.x + 1000, y |-> PRODUCT.engraveMm.y + 6000,
      x2 |-> PRODUCT.engraveMm.x + 9000, y2 |-> PRODUCT.engraveMm.y + 6000,
      stroke |-> BLACK, strokeWidthMm |-> 60 ]

NewOrnament(id, kind) ==
    [ id |-> id, type |-> "ornament", kind |-> kind,
      x |-> PRODUCT.engraveMm.x + 1000, y |-> PRODUCT.engraveMm.y + 1000,
      scaleMm |-> 2500, stroke |-> BLACK, strokeWidthMm |-> 40 ]

(***************************************************************************)
(* Containment validator                                                   *)
(***************************************************************************)
ax1 == PRODUCT.engraveMm.x + PRODUCT.engraveMm.margin
ay1 == PRODUCT.engraveMm.y + PRODUCT.engraveMm.margin
ax2 == PRODUCT.engraveMm.x + PRODUCT.engraveMm.w - PRODUCT.engraveMm.margin
ay2 == PRODUCT.engraveMm.y + PRODUCT.engraveMm.h - PRODUCT.engraveMm.margin

\* the mutant: the far side compared strictly
withinEngraveAreaStrict(it) ==
    CASE it.type = "text" ->
           it.x >= ax1 /\ it.y >= ay1 /\ it.x < ax2 /\ it.y < ay2
      [] it.type = "rect" ->
           it.x >= ax1 /\ it.y >= ay1 /\ it.x + it.w < ax2 /\ it.y + it.h < ay2
      [] it.type = "circle" ->
           it.x - it.r >= ax1 /\ it.y - it.r >= ay1 /\ it.x + it.r < ax2 /\ it.y + it.r < ay2
      [] it.type = "line" ->
           /\ Min2(it.x, it.x2) >= ax1 /\ Min2(it.y, it.y2) >= ay1
           /\ Max2(it.x, it.x2) < ax2 /\ Max2(it.y, it.y2) < ay2
      [] it.type = "ornament" ->
           it.x >= ax1 /\ it.y >= ay1 /\ it.x + it.scaleMm < ax2 /\ it.y + it.scaleMm < ay2
      [] OTHER -> TRUE

\* the mutant: a line checked by its first endpoint alone
withinEngraveAreaFirstEndpoint(it) ==
    CASE it.type = "text" ->
           it.x >= ax1 /\ it.y >= ay1 /\ it.x <= ax2 /\ it.y <= ay2
      [] it.type = "rect" ->
           it.x >= ax1 /\ it.y >= ay1 /\ it.x + it.w <= ax2 /\ it.y + it.h <= ay2
      [] it.type = "circle" ->
           it.x - it.r >= ax1 /\ it.y - it.r >= ay1 /\ it.x + it.r <= ax2 /\ it.y + it.r <= ay2
      [] it.type = "line" ->
           it.x >= ax1 /\ it.y >= ay1 /\ it.x <= ax2 /\ it.y <= ay2
      [] it.type = "ornament" ->
           it.x >= ax1 /\ it.y >= ay1 /\ it.x + it.scaleMm <= ax2 /\ it.y + it.scaleMm <= ay2
      [] OTHER -> TRUE

withinEngraveArea(it) ==
    CASE it.type = "text" ->
           it.x >= ax1 /\ it.y >= ay1 /\ it.x <= ax2 /\ it.y <= ay2
      [] it.type = "rect" ->
           it.x >= ax1 /\ it.y >= ay1 /\ it.x + it.w <= ax2 /\ it.y + it.h <= ay2
      [] it.type = "circle" ->
           it.x - it.r >= ax1 /\ it.y - it.r >= ay1 /\ it.x + it.r <= ax2 /\ it.y + it.r <= ay2
      [] it.type = "line" ->
           /\ Min2(it.x, it.x2) >= ax1 /\ Min2(it.y, it.y2) >= ay1
           /\ Max2(it.x, it.x2) <= ax2 /\ Max2(it.y, it.y2) <= ay2
      [] it.type = "ornament" ->
           it.x >= ax1 /\ it.y >= ay1 /\ it.x + it.scaleMm <= ax2 /\ it.y + it.scaleMm <= ay2
      [] OTHER -> TRUE

\* the findings, as the data their texts are built from
ProblemOutside(it) == [msg |-> "Prvek mimo gravirovaci plochu", typ |-> it.type]
ProblemTooSmall == [msg |-> "Text je prilis maly", min |-> PRODUCT.minFontMm]

\* the findings of one pass of the loop body
ProblemsOf(it) ==
    (IF ~withinEngraveArea(it) THEN <<ProblemOutside(it)>> ELSE <<>>)
    \o (IF it.type = "text" /\ it.fontSizeMm < PRODUCT.minFontMm
        THEN <<ProblemTooSmall>> ELSE <<>>)

RECURSIVE Problems(_)
Problems(its) ==
    IF its = <<>> THEN <<>> ELSE ProblemsOf(Head(its)) \o Problems(Tail(its))

\* the mutant: the loop stops at the first finding
RECURSIVE ProblemsShortCircuit(_)
ProblemsShortCircuit(its) ==
    IF its = <<>> THEN <<>>
    ELSE IF ProblemsOf(Head(its)) # <<>> THEN <<Head(ProblemsOf(Head(its)))>>
         ELSE ProblemsShortCircuit(Tail(its))

validateAllShortCircuit(its) ==
    [ok |-> Len(ProblemsShortCircuit(its)) = 0, problems |-> ProblemsShortCircuit(its)]

validateAll(its) == [ok |-> Len(Problems(its)) = 0, problems |-> Problems(its)]

(***************************************************************************)
(* Vector exporter.  A primitive is a record of its tag and attributes;    *)
(* sw and rot are <<>> when the attribute text is the empty string.        *)
(***************************************************************************)
\* the mutant: the stroke written for every width that is not negative
StrokeAttrFromZero(it) ==
    IF NumOrElse(it, "strokeWidthMm", 0) >= 0
    THEN <<[stroke |-> OrElse(it, "stroke", BLACK), strokeWidth |-> NumOrElse(it, "strokeWidthMm", 0)]>>
    ELSE <<>>

StrokeAttr(it) ==
    IF NumOrElse(it, "strokeWidthMm", 0) > 0
    THEN <<[stroke |-> OrElse(it, "stroke", BLACK), strokeWidth |-> it.strokeWidthMm]>>
    ELSE <<>>

RotAttr(it) ==
    IF NumOrElse(it, "rotation", 0) # 0
    THEN <<[rotate |-> it.rotation, cx |-> it.x, cy |-> it.y]>>
    ELSE <<>>

FillAttr(it) == IF it.fillEnabled THEN OrElse(it, "fill", BLACK) ELSE "none"

\* the parts pushed for one item
PartsOf(it) ==
    CASE it.type = "text" ->
           <<[ tag |-> "text", x |-> it.x, y |-> it.y,
               fontFamily |-> escapeXml(it.fontFamily), fontSize |-> it.fontSizeMm,
               fontStyle |-> IF it.fontStyle \in {"italic", "bold italic"} THEN "italic" ELSE "normal",
               fontWeight |-> IF it.fontStyle \in {"bold", "bold italic"} THEN "bold" ELSE "normal",
               textAnchor |-> IF it.align = "left" THEN "start"
                              ELSE IF it.align = "center" THEN "middle" ELSE "end",
               fill |-> OrElse(it, "fill", BLACK),
               sw |-> StrokeAttr(it), rot |-> RotAttr(it),
               content |-> escapeXml(it.text) ]>>
      [] it.type = "rect" ->
           <<[ tag |-> "rect", x |-> it.x, y |-> it.y, width |-> it.w, height |-> it.h,
               fill |-> FillAttr(it), sw |-> StrokeAttr(it), rot |-> RotAttr(it) ]>>
      [] it.type = "circle" ->
           <<[ tag |-> "circle", cx |-> it.x, cy |-> it.y, r |-> it.r,
               fill |-> FillAttr(it), sw |-> StrokeAttr(it) ]>>
      [] it.type = "line" ->
           <<[ tag |-> "line", x1 |-> it.x, y1 |-> it.y, x2 |-> it.x2, y2 |-> it.y2,
               sw |-> StrokeAttr(it) ]>>
      [] it.type = "ornament" ->
           <<[ tag |-> "path", d |-> OrnamentPath(it.kind), fill |-> "none",
               sw |-> StrokeAttr(it), translate |-> <<it.x, it.y>>,
               scale |-> [num |-> it.scaleMm, den |-> 6000] ]>>
      [] OTHER -> <<>>

RECURSIVE Parts(_)
Parts(its) == IF its = <<>> THEN <<>> ELSE PartsOf(Head(its)) \o Parts(Tail(its))

\* the mutant: the parts are joined front to back
RECURSIVE PartsReversed(_)
PartsReversed(its) ==
    IF its = <<>> THEN <<>> ELSE PartsReversed(Tail(its)) \o PartsOf(Head(its))

exportSvgMmReversed(its) ==
    [ width |-> PRODUCT.canvasMm.w, height |-> PRODUCT.canvasMm.h,
      viewBox |-> <<0, 0, PRODUCT.canvasMm.w, PRODUCT.canvasMm.h>>,
      parts |-> PartsReversed(its) ]

exportSvgMm(its) ==
    [ width |-> PRODUCT.canvasMm.w, height |-> PRODUCT.canvasMm.h,
      viewBox |-> <<0, 0, PRODUCT.canvasMm.w, PRODUCT.canvasMm.h>>,
      parts |-> Parts(its) ]

(***************************************************************************)
(* Inputs of the handlers                                                  *)
(***************************************************************************)
\* node.scaleX(), node.scaleY() at the end of a gesture, in hundredths
ScalePairs == {<<100, 100>>, <<200, 50>>, <<2000, 2000>>, <<-100, 0>>}
\* Number(e.target.value) of a number input, in 1/100 mm
NumberInputs == {-100, 150, 2000, 99900}
\* e.target.x(), e.target.y() at the end of a drag, in 1/100 px
DragPositions == {<<29996, 18000>>, <<30000, 18000>>, <<2000, 0>>}
\* node.rotation() at the end of a gesture (the Transformer has rotateEnabled), in degrees
NodeRotations == {0, 30}
\* every identifier handed out so far: the nodes a gesture may be reported for
NodeIds == 1..(nextId - 1)
\* uuid() has identifiers left within the bound of the model
CanAdd == nextId <= MaxIds

\* alert: the dialog shown; problems: the findings it lists; log: what console.log got
NoOutput == [alert |-> "none", problems |-> <<>>, log |-> <<>>]
Called(op, node) ==
    [op |-> op, node |-> node, sX |-> 100, sY |-> 100, rot |-> 0, px |-> 0, py |-> 0,
     dir |-> "none"]

(***************************************************************************)
(* Initial state                                                           *)
(***************************************************************************)
Init ==
    /\ items = <<InitialText(1)>>
    /\ selectedId = Null
    /\ nextId = 2
    /\ call = Called("init", Null)
    /\ out = NoOutput
    /\ edits = 0

(***************************************************************************)
(* Add, delete, duplicate, reorder, select                                 *)
(***************************************************************************)
\* const id = uuid(); setItems((p) => [...p, it]); select(id)
Add(it, op) ==
    /\ items' = Append(items, it)
    /\ selectedId' = it.id
    /\ nextId' = nextId + 1
    /\ call' = Called(op, Null)
    /\ out' = NoOutput
    /\ UNCHANGED edits

addText == Add(NewText(nextId), "addText")
addRect == Add(NewRect(nextId), "addRect")
addCircle == Add(NewCircle(nextId), "addCircle")
addLine == Add(NewLine(nextId), "addLine")
addOrnament == \E kind \in OrnamentKinds : Add(NewOrnament(nextId, kind), "addOrnament")

select ==
    \E id \in Ids(items) \cup {Null} :
        /\ selectedId' = id
        /\ call' = Called("select", Null)
        /\ out' = NoOutput
        /\ UNCHANGED <<items, nextId, edits>>

\* the mutant: the item is filtered out and the selection left as it was
deleteSelectedKeepSelection ==
    /\ IF selectedId = Null
       THEN UNCHANGED <<items, selectedId>>
       ELSE /\ items' = FilterOut(items, selectedId)
            /\ UNCHANGED selectedId
    /\ call' = Called("deleteSelected", Null)
    /\ out' = NoOutput
    /\ UNCHANGED <<nextId, edits>>

deleteSelected ==
    /\ IF selectedId = Null
       THEN UNCHANGED <<items, selectedId>>
       ELSE /\ items' = FilterOut(items, selectedId)
            /\ selectedId' = Null
    /\ call' = Called("deleteSelected", Null)
    /\ out' = NoOutput
    /\ UNCHANGED <<nextId, edits>>

\* the mutant: the copy keeps the identifier of the item it was made from
duplicateSelectedSameId ==
    /\ IF ~HasSelected
       THEN UNCHANGED <<items, selectedId, nextId>>
       ELSE /\ items' = Append(items,
                   Spread(selected, [x |-> selected.x + 500, y |-> selected.y + 500]))
            /\ selectedId' = selected.id
            /\ nextId' = nextId + 1
    /\ call' = Called("duplicateSelected", Null)
    /\ out' = NoOutput
    /\ UNCHANGED edits

duplicateSelected ==
    /\ IF ~HasSelected
       THEN UNCHANGED <<items, selectedId, nextId>>
       ELSE /\ items' = Append(items,
                   Spread(selected, [id |-> nextId, x |-> selected.x + 500, y |-> selected.y + 500]))
            /\ selectedId' = nextId
            /\ nextId' = nextId + 1
    /\ call' = Called("duplicateSelected", Null)
    /\ out' = NoOutput
    /\ UNCHANGED edits

\* arr.splice(idx, 1)
Splice1(p, idx) == SubSeq(p, 1, idx - 1) \o SubSeq(p, idx + 1, Len(p))

\* the mutant: no test of idx < 0, so that splice(-1, 1) takes the last item
moveSelectedInUnguarded(p, sel, dir) ==
    IF p = <<>> THEN p
    ELSE IF FindIndex(p, sel) = 0
         THEN (IF dir = "front" THEN p ELSE <<p[Len(p)]>> \o SubSeq(p, 1, Len(p) - 1))
         ELSE IF dir = "front"
              THEN Append(Splice1(p, FindIndex(p, sel)), p[FindIndex(p, sel)])
              ELSE <<p[FindIndex(p, sel)]>> \o Splice1(p, FindIndex(p, sel))

\* the mutant: the spliced item is pushed to the front whatever the direction
moveSelectedInAlwaysFront(p, sel, dir) ==
    IF FindIndex(p, sel) = 0 THEN p
    ELSE Append(Splice1(p, FindIndex(p, sel)), p[FindIndex(p, sel)])

\* the mutant: the spliced item is pushed to the front but never put back at the back
moveSelectedInDropped(p, sel, dir) ==
    IF FindIndex(p, sel) = 0 THEN p
    ELSE IF dir = "front"
         THEN Append(Splice1(p, FindIndex(p, sel)), p[FindIndex(p, sel)])
         ELSE Splice1(p, FindIndex(p, sel))

moveSelectedIn(p, sel, dir) ==
    IF FindIndex(p, sel) = 0 THEN p
    ELSE IF dir = "front"
         THEN Append(Splice1(p, FindIndex(p, sel)), p[FindIndex(p, sel)])
         ELSE <<p[FindIndex(p, sel)]>> \o Splice1(p, FindIndex(p, sel))

moveSelected ==
    \E dir \in {"front", "back"} :
        /\ items' = IF selectedId = Null THEN items ELSE moveSelectedIn(items, selectedId, dir)
        /\ call' = [Called("moveSelected", Null) EXCEPT !.dir = dir]
        /\ out' = NoOutput
        /\ UNCHANGED <<selectedId, nextId, edits>>

(***************************************************************************)
(* Attribute edits of the selected item                                    *)
(***************************************************************************)
\* setItems((prev) => prev.map((it) => (it.id === selectedId ? { ...it, ...patch } : it)))
updateSelected(its, sel, patch) ==
    IF sel = Null THEN its
    ELSE [k \in 1..Len(its) |-> IF its[k].id = sel THEN Spread(its[k], patch) ELSE its[k]]

Edit(patch, op) ==
    /\ edits < MaxEdits
    /\ items' = updateSelected(items, selectedId, patch)
    /\ edits' = edits + 1
    /\ call' = Called(op, Null)
    /\ out' = NoOutput
    /\ UNCHANGED <<selectedId, nextId>>

\* the mutant: the typed number stored as it is
fontSizePatchUnclamped(v) == [fontSizeMm |-> v]
\* the patch of the font size input (shown for a selected text)
fontSizePatch(v) == [fontSizeMm |-> clamp(v, PRODUCT.minFontMm, PRODUCT.maxFontMm)]

\* the patch of the stroke width input (shown for a selected rect, circle or line)
strokeWidthPatch(type, v) ==
    [strokeWidthMm |-> IF type = "line" THEN clamp(v, 10, 500) ELSE clamp(v, 0, 500)]

\* the patch of the ornament size input (shown for a selected ornament)
scaleMmPatch(v) == [scaleMm |-> clamp(v, 500, 12000)]

editFontSize ==
    /\ HasSelected /\ selected.type = "text"
    /\ \E v \in NumberInputs : Edit(fontSizePatch(v), "editFontSize")

editStrokeWidth ==
    /\ HasSelected /\ selected.type \in {"rect", "circle", "line"}
    /\ \E v \in NumberInputs : Edit(strokeWidthPatch(selected.type, v), "editStrokeWidth")

editScaleMm ==
    /\ HasSelected /\ selected.type = "ornament"
    /\ \E v \in NumberInputs : Edit(scaleMmPatch(v), "editScaleMm")

(***************************************************************************)
(* Drag                                                                    *)
(***************************************************************************)
\* p.map((x) => (x.id === it.id ? { ...x, x: nx, y: ny } : x))
onDragEndIn(p, id, px, py) ==
    [k \in 1..Len(p) |->
        IF p[k].id = id THEN Spread(p[k], [x |-> pxToMm(px), y |-> pxToMm(py)]) ELSE p[k]]

onDragEnd ==
    \E id \in Ids(items), pos \in DragPositions :
        /\ edits < MaxEdits
        /\ items' = onDragEndIn(items, id, pos[1], pos[2])
        /\ edits' = edits + 1
        /\ call' = [Called("onDragEnd", id) EXCEPT !.px = pos[1], !.py = pos[2]]
        /\ out' = NoOutput
        /\ UNCHANGED <<selectedId, nextId>>

(***************************************************************************)
(* Gesture commit resolver                                                 *)
(***************************************************************************)
\* the mutant: the scaled font size of a text handed over as it is
commitPatchTextUnclamped(item, sX, sY) ==
    CASE item.type = "rect" ->
           [ w |-> clamp(Scaled(item.w, sX), 100, 50000),
             h |-> clamp(Scaled(item.h, sY), 100, 50000) ]
      [] item.type = "circle" ->
           [ r |-> clamp(Scaled(item.r, Max2(sX, sY)), 100, 50000) ]
      [] item.type = "text" ->
           [ fontSizeMm |-> Scaled(item.fontSizeMm, Max2(sX, sY)) ]
      [] item.type = "ornament" ->
           [ scaleMm |-> clamp(Scaled(item.scaleMm, Max2(sX, sY)), 500, 12000) ]
      [] OTHER -> <<>>

\* the mutant: the scaled sizes of a rectangle and a circle handed over as they are
commitPatchShapeUnclamped(item, sX, sY) ==
    CASE item.type = "rect" ->
           [ w |-> Scaled(item.w, sX), h |-> Scaled(item.h, sY) ]
      [] item.type = "circle" ->
           [ r |-> Scaled(item.r, Max2(sX, sY)) ]
      [] item.type = "text" ->
           [ fontSizeMm |-> clamp(Scaled(item.fontSizeMm, Max2(sX, sY)),
                                  PRODUCT.minFontMm, PRODUCT.maxFontMm) ]
      [] item.type = "ornament" ->
           [ scaleMm |-> clamp(Scaled(item.scaleMm, Max2(sX, sY)), 500, 12000) ]
      [] OTHER -> <<>>

\* the patch commitTransform hands to updateSelected for the item of the node;
\* <<>> (no attribute) when it hands over none
commitPatch(item, sX, sY) ==
    CASE item.type = "rect" ->
           [ w |-> clamp(Scaled(item.w, sX), 100, 50000),
             h |-> clamp(Scaled(item.h, sY), 100, 50000) ]
      [] item.type = "circle" ->
           [ r |-> clamp(Scaled(item.r, Max2(sX, sY)), 100, 50000) ]
      [] item.type = "text" ->
           [ fontSizeMm |-> clamp(Scaled(item.fontSizeMm, Max2(sX, sY)),
                                  PRODUCT.minFontMm, PRODUCT.maxFontMm) ]
      [] item.type = "ornament" ->
           [ scaleMm |-> clamp(Scaled(item.scaleMm, Max2(sX, sY)), 500, 12000) ]
      [] OTHER -> <<>>

\* the mutant: a line resized like the other shapes, its second endpoint scaled
commitTransformInLineToo(its, sel, node, sX, sY) ==
    IF FindIndex(its, node) = 0 THEN its
    ELSE IF its[FindIndex(its, node)].type \in {"rect", "circle", "text", "ornament"}
         THEN updateSelected(its, sel, commitPatch(its[FindIndex(its, node)], sX, sY))
         ELSE updateSelected(its, sel,
                [ x2 |-> its[FindIndex(its, node)].x
                           + Scaled(its[FindIndex(its, node)].x2 - its[FindIndex(its, node)].x, sX) ])

\* the scene after commitTransform(node) with node.id() = node, node.scaleX() = sX,
\* node.scaleY() = sY
commitTransformIn(its, sel, node, sX, sY) ==
    IF FindIndex(its, node) = 0 THEN its
    ELSE IF its[FindIndex(its, node)].type \in {"rect", "circle", "text", "ornament"}
         THEN updateSelected(its, sel, commitPatch(its[FindIndex(its, node)], sX, sY))
         ELSE its

\* the mutant: the node's rotation is stored in the selected item with the sizes
commitTransformStoringRotation ==
    \E node \in NodeIds, s \in ScalePairs, r \in NodeRotations :
        /\ edits < MaxEdits
        /\ items' = updateSelected(commitTransformIn(items, selectedId, node, s[1], s[2]),
                                   selectedId, [rotation |-> r])
        /\ edits' = edits + 1
        /\ call' = [Called("commitTransform", node) EXCEPT !.sX = s[1], !.sY = s[2], !.rot = r]
        /\ out' = NoOutput
        /\ UNCHANGED <<selectedId, nextId>>

\* the node's rotation r is an input of the gesture that the handler never reads
commitTransform ==
    \E node \in NodeIds, s \in ScalePairs, r \in NodeRotations :
        /\ edits < MaxEdits
        /\ items' = commitTransformIn(items, selectedId, node, s[1], s[2])
        /\ edits' = edits + 1
        /\ call' = [Called("commitTransform", node) EXCEPT !.sX = s[1], !.sY = s[2], !.rot = r]
        /\ out' = NoOutput
        /\ UNCHANGED <<selectedId, nextId>>

(***************************************************************************)
(* Export                                                                  *)
(***************************************************************************)
\* the mutant: the document is produced whatever the validator found
handleExportOutUnguarded(its) ==
    [alert |-> "generated", problems |-> <<>>, log |-> <<exportSvgMm(its)>>]

\* what handleExport emits for the scene its
handleExportOut(its) ==
    IF ~validateAll(its).ok
    THEN [alert |-> "refused", problems |-> validateAll(its).problems, log |-> <<>>]
    ELSE [alert |-> "generated", problems |-> <<>>, log |-> <<exportSvgMm(its)>>]

\* the mutant: the button drops the offending items from the scene and deselects
handleExportCorrecting ==
    /\ out' = handleExportOut(items)
    /\ call' = Called("handleExport", Null)
    /\ items' = SelectSeq(items, LAMBDA i : ProblemsOf(i) = <<>>)
    /\ selectedId' = Null
    /\ UNCHANGED <<nextId, edits>>

handleExport ==
    /\ out' = handleExportOut(items)
    /\ call' = Called("handleExport", Null)
    /\ UNCHANGED <<items, selectedId, nextId, edits>>

(***************************************************************************)
(* The program                                                             *)
(***************************************************************************)
Next ==
    \/ CanAdd /\ addText
    \/ CanAdd /\ addRect
    \/ CanAdd /\ addCircle
    \/ CanAdd /\ addLine
    \/ CanAdd /\ addOrnament
    \/ select
    \/ deleteSelected
    \/ (HasSelected => CanAdd) /\ duplicateSelected
    \/ moveSelected
    \/ editFontSize
    \/ editStrokeWidth
    \/ editScaleMm
    \/ onDragEnd
    \/ commitTransform
    \/ handleExport

Spec == Init /\ [][Next]_vars

(***************************************************************************)
(* The add-only program: the initial scene and the five add handlers,      *)
(* with the export button to observe the validator.                        *)
(***************************************************************************)
CanAddMore == Len(items) <= MaxAdds

NextAdd ==
    \/ CanAddMore /\ addText
    \/ CanAddMore /\ addRect
    \/ CanAddMore /\ addCircle
    \/ CanAddMore /\ addLine
    \/ CanAddMore /\ addOrnament
    \/ handleExport

SpecAdd == Init /\ [][NextAdd]_vars

(***************************************************************************)
(* The stacking program: scenes of up to MaxScene items are built with     *)
(* two of the add handlers and rearranged by select, delete, duplicate     *)
(* and reorder.                                                            *)
(***************************************************************************)
CanStack == Len(items) < MaxScene /\ nextId <= MaxScene + 1

NextOrder ==
    \/ CanStack /\ addRect
    \/ CanStack /\ addLine
    \/ select
    \/ deleteSelected
    \/ (HasSelected => CanStack) /\ duplicateSelected
    \/ moveSelected

SpecOrder == Init /\ [][NextOrder]_vars

(***************************************************************************)
(* The validator and the exporter on arbitrary scenes: the scene is drawn  *)
(* from items placed on, just inside and just outside the legal bounds,    *)
(* and the export button is pressed.                                       *)
(***************************************************************************)
XS == {ax1 - 1, ax1, ax2, ax2 + 1}
YS == {ay1 - 1, ay1, ay2, ay2 + 1}

ProbeTexts ==
    {Spread(NewText(1), [x |-> x, y |-> y, fontSizeMm |-> f]) :
        x \in XS, y \in YS, f \in {PRODUCT.minFontMm - 1, PRODUCT.minFontMm}}

ProbeRects ==
    {Spread(NewRect(1), [x |-> x, y |-> y, w |-> w, h |-> h]) :
        x \in {ax1 - 1, ax1}, y \in {ay1 - 1, ay1},
        w \in {ax2 - ax1, ax2 - ax1 + 1}, h \in {ay2 - ay1, ay2 - ay1 + 1}}

ProbeCircles ==
    {Spread(NewCircle(1), [x |-> x, y |-> y]) :
        x \in {ax1 + 1199, ax1 + 1200, ax2 - 1200, ax2 - 1199},
        y \in {ay1 + 1199, ay1 + 1200, ay2 - 1200, ay2 - 1199}}

ProbeLines ==
    {Spread(NewLine(1), [x |-> x, y |-> y, x2 |-> x2, y2 |-> y2]) :
        x \in XS, x2 \in XS, y \in {ay1, ay2, ay2 + 1}, y2 \in {ay1 - 1, ay1, ay2}}

ProbeOrnaments ==
    {Spread(NewOrnament(1, "star"), [x |-> x, y |-> y]) :
        x \in {ax1 - 1, ax1, ax2 - 2500, ax2 - 2499},
        y \in {ay1 - 1, ay1, ay2 - 2500, ay2 - 2499}}

ProbeItems == ProbeTexts \cup ProbeRects \cup ProbeCircles \cup ProbeLines \cup ProbeOrnaments

\* a few items of every kind, some valid and some not, for the longer scenes
SceneItems ==
    { Spread(NewText(1), [fontSizeMm |-> PRODUCT.minFontMm - 1]),
      Spread(NewText(1), [x |-> ax1 - 1, fontSizeMm |-> PRODUCT.minFontMm - 1]),
      Spread(NewText(1), [x |-> ax2 + 1]),
      NewText(1),
      NewRect(1),
      Spread(NewRect(1), [w |-> 50000]),
      Spread(NewCircle(1), [x |-> ax1]),
      Spread(NewLine(1), [y2 |-> ay2 + 1]),
      NewOrnament(1, "heart") }

\* the item without the optional property k
Omit(it, k) == [f \in (DOMAIN it) \ {k} |-> it[f]]

\* one valid item of every variant
OneOfEach == {NewText(1), NewRect(1), NewCircle(1), NewLine(1), NewOrnament(1, "heart")}

\* rotation?: absent, zero, and turned either way (degrees)
ProbeRotations ==
    OneOfEach \cup {Spread(it, [rotation |-> r]) : it \in OneOfEach, r \in {0, 30, -45}}

\* stroke?, strokeWidthMm?: absent, undefined, a colour; absent, zero, half a millimetre
ProbeStrokes ==
    LET widths(it) == {Omit(it, "strokeWidthMm")}
                      \cup {Spread(it, [strokeWidthMm |-> w]) : w \in {0, 50}}
        colours(it) == {Omit(it, "stroke")}
                       \cup {Spread(it, [stroke |-> c]) : c \in {Undefined, "#ff0000"}}
    IN UNION {UNION {colours(jt) : jt \in widths(it)} : it \in OneOfEach}

\* text: every string of up to MaxLen characters over the reserved characters,
\* a letter and a semicolon, and two longer ones
TextChars == {"&", "<", ">", "\"", "'", "a", ";"}
ProbeStrings ==
    UNION {[1..n -> TextChars] : n \in 0..MaxLen}
    \cup { <<"5", " ", "<", " ", "1", "0", " ", "&", " ", "\"", "o", "k", "\"">>,
           <<"&", "l", "t", ";", "'", ">", "&", "&">> }

ProbeContents == {Spread(NewText(1), [text |-> s]) : s \in ProbeStrings}

\* the scene with its items numbered 1, 2, ... as identifiers
Numbered(its) == [k \in 1..Len(its) |-> Spread(its[k], [id |-> k])]

ProbeScenes ==
    {<<it>> : it \in ProbeItems \cup ProbeRotations \cup ProbeStrokes \cup ProbeContents}
    \cup UNION {{Numbered(f) : f \in [1..n -> SceneItems]} : n \in 0..MaxLen}

InitV ==
    /\ items \in ProbeScenes
    /\ selectedId = Null
    /\ nextId = Len(items) + 1
    /\ call = Called("init", Null)
    /\ out = NoOutput
    /\ edits = 0

NextV == handleExport

SpecV == InitV /\ [][NextV]_vars

(***************************************************************************)
(* The statements checked.  What a statement expects is written here from  *)
(* its own words, apart from the operators of the program above.           *)
(***************************************************************************)
Exported == call.op = "handleExport"
Generated == Exported /\ out.alert = "generated"
Refused == Exported /\ out.alert = "refused"
Range(f) == {f[k] : k \in DOMAIN f}

\* the legal bounds: the region inset by the margin
Inside(px, py) ==
    /\ PRODUCT.engraveMm.x + PRODUCT.engraveMm.margin <= px
    /\ px <= PRODUCT.engraveMm.x + PRODUCT.engraveMm.w - PRODUCT.engraveMm.margin
    /\ PRODUCT.engraveMm.y + PRODUCT.engraveMm.margin <= py
    /\ py <= PRODUCT.engraveMm.y + PRODUCT.engraveMm.h - PRODUCT.engraveMm.margin

\* the containment rule, variant by variant
ContainmentRule(it) ==
    CASE it.type = "text"     -> Inside(it.x, it.y)
      [] it.type = "rect"     -> Inside(it.x, it.y) /\ Inside(it.x + it.w, it.y + it.h)
      [] it.type = "circle"   -> Inside(it.x - it.r, it.y - it.r) /\ Inside(it.x + it.r, it.y + it.r)
      [] it.type = "line"     -> Inside(it.x, it.y) /\ Inside(it.x2, it.y2)
      [] it.type = "ornament" -> Inside(it.x, it.y) /\ Inside(it.x + it.scaleMm, it.y + it.scaleMm)

ReportedOutside(it) == ProblemOutside(it) \in Range(out.problems)

\* the findings expected of a scene, in scene order
RECURSIVE ExpectedFindings(_)
ExpectedFindings(its) ==
    IF its = <<>> THEN <<>>
    ELSE (IF ContainmentRule(Head(its)) THEN <<>>
          ELSE <<[msg |-> "Prvek mimo gravirovaci plochu", typ |-> Head(its).type]>>)
         \o (IF Head(its).type = "text" /\ Head(its).fontSizeMm < 300
             THEN <<[msg |-> "Text je prilis maly", min |-> 300]>> ELSE <<>>)
         \o ExpectedFindings(Tail(its))

FailingContainment(its) == {k \in 1..Len(its) : ~ContainmentRule(its[k])}
TooSmallTexts(its) == {k \in 1..Len(its) : its[k].type = "text" /\ its[k].fontSizeMm < 300}

\* C1: handleExport produces a document only if validateAll of the very same scene
\* returned ok, and the document is the export of that scene; when validateAll
\* reports a problem, exportSvgMm is not run and nothing is logged.
C1_ExportGating ==
    /\ out.log # <<>> => validateAll(items).ok /\ out.log = <<exportSvgMm(items)>>
    /\ Exported /\ ~validateAll(items).ok => out.log = <<>> /\ out.alert = "refused"

\* C1 witness: export was asked for a scene an edit has pushed out of bounds, and refused
C1_Witness == Refused /\ edits > 0 /\ out.problems # <<>> /\ out.log = <<>>

\* C2: validateAll collects every finding: as many as there are items failing
\* containment plus texts below the minimum font size, in scene order, and it
\* answers ok exactly when there is none.
C2_AllFindingsCollected ==
    Exported =>
        /\ out.problems = ExpectedFindings(items)
        /\ Len(out.problems)
             = Cardinality(FailingContainment(items)) + Cardinality(TooSmallTexts(items))
        /\ (out.alert = "generated") <=> (out.problems = <<>>)
        /\ validateAll(items).ok <=> (validateAll(items).problems = <<>>)

\* C2 witness: two items give three findings, the first item two of them
C2_Witness ==
    /\ Refused /\ Len(items) = 2 /\ Len(out.problems) = 3
    /\ 1 \in FailingContainment(items) /\ 1 \in TooSmallTexts(items)

\* C3: withinEngraveArea agrees with the containment rule of each variant: an
\* item alone in the scene is reported outside exactly when the rule fails.
C3_ContainmentRule ==
    Exported /\ Len(items) = 1 =>
        (ReportedOutside(items[1]) <=> ~ContainmentRule(items[1]))

\* C3 witness: a line drawn right to left and bottom to top, inside, reported valid
C3_Witness ==
    /\ Generated /\ Len(items) = 1 /\ items[1].type = "line"
    /\ items[1].x > items[1].x2 /\ items[1].y > items[1].y2

\* the extent of an item: left, top, right, bottom
Box(it) ==
    CASE it.type = "text"     -> [l |-> it.x, t |-> it.y, r |-> it.x, b |-> it.y]
      [] it.type = "rect"     -> [l |-> it.x, t |-> it.y, r |-> it.x + it.w, b |-> it.y + it.h]
      [] it.type = "circle"   -> [l |-> it.x - it.r, t |-> it.y - it.r,
                                  r |-> it.x + it.r, b |-> it.y + it.r]
      [] it.type = "line"     -> [l |-> Min2(it.x, it.x2), t |-> Min2(it.y, it.y2),
                                  r |-> Max2(it.x, it.x2), b |-> Max2(it.y, it.y2)]
      [] it.type = "ornament" -> [l |-> it.x, t |-> it.y,
                                  r |-> it.x + it.scaleMm, b |-> it.y + it.scaleMm]

BoxWithin(bx) == Inside(bx.l, bx.t) /\ Inside(bx.r, bx.b)
BoxOnBoundary(bx) ==
    /\ BoxWithin(bx)
    /\ \/ bx.l = PRODUCT.engraveMm.x + PRODUCT.engraveMm.margin
       \/ bx.t = PRODUCT.engraveMm.y + PRODUCT.engraveMm.margin
       \/ bx.r = PRODUCT.engraveMm.x + PRODUCT.engraveMm.w - PRODUCT.engraveMm.margin
       \/ bx.b = PRODUCT.engraveMm.y + PRODUCT.engraveMm.h - PRODUCT.engraveMm.margin
\* one step (1/100 mm) across a boundary
BoxOneStepOut(bx) ==
    \/ bx.l = PRODUCT.engraveMm.x + PRODUCT.engraveMm.margin - 1
    \/ bx.t = PRODUCT.engraveMm.y + PRODUCT.engraveMm.margin - 1
    \/ bx.r = PRODUCT.engraveMm.x + PRODUCT.engraveMm.w - PRODUCT.engraveMm.margin + 1
    \/ bx.b = PRODUCT.engraveMm.y + PRODUCT.engraveMm.h - PRODUCT.engraveMm.margin + 1

\* C4: the bounds are inclusive: an item whose extent lies exactly on a legal
\* boundary is reported valid, and one whose extent is one step across a
\* boundary is reported invalid.
C4_InclusiveBounds ==
    Exported /\ Len(items) = 1 =>
        /\ BoxOnBoundary(Box(items[1])) => ~ReportedOutside(items[1])
        /\ BoxOneStepOut(Box(items[1])) => ReportedOutside(items[1])

\* C4 witness: a rectangle filling the legal bounds, corner to corner, reported valid
C4_Witness ==
    /\ Exported /\ Len(items) = 1 /\ items[1].type = "rect"
    /\ Box(items[1]) = [l |-> 7500, t |-> 4500, r |-> 22500, b |-> 12500]
    /\ ~ReportedOutside(items[1])

\* C5: the initial scene and every scene built by the add handlers alone pass
\* validateAll.
C5_AddsInside ==
    /\ validateAll(items).ok
    /\ Exported => out.alert = "generated"

\* C5 witness: three items, a rectangle among them, exported
C5_Witness ==
    /\ Generated /\ Len(items) = 3
    /\ \E k \in 1..Len(items) : items[k].type = "rect"

\* C6: every text has fontSizeMm in [3, 40] mm, every ornament scaleMm in
\* [5, 120] mm, every item a stroke width in [0, 5] mm, every line one of at
\* least 0.1 mm.
C6_ClampInvariant ==
    \A k \in 1..Len(items) :
        /\ items[k].type = "text" => items[k].fontSizeMm >= 300 /\ items[k].fontSizeMm <= 4000
        /\ items[k].type = "ornament" => items[k].scaleMm >= 500 /\ items[k].scaleMm <= 12000
        /\ items[k].strokeWidthMm >= 0 /\ items[k].strokeWidthMm <= 500
        /\ items[k].type = "line" => items[k].strokeWidthMm >= 10

\* C6 witness: a text typed up to the maximum beside a line typed down to its minimum
C6_Witness ==
    /\ edits = 2
    /\ \E k \in 1..Len(items) : items[k].type = "text" /\ items[k].fontSizeMm = 4000
    /\ \E k \in 1..Len(items) : items[k].type = "line" /\ items[k].strokeWidthMm = 10

\* v held to [lo, hi]
Saturate(v, lo, hi) == IF v < lo THEN lo ELSE IF v > hi THEN hi ELSE v

\* the item after a gesture with scale factors sX, sY, by the rule of its variant
RuleApplied(it, sX, sY) ==
    CASE it.type = "rect" ->
           Spread(it, [ w |-> Saturate((it.w * sX) \div 100, 100, 50000),
                        h |-> Saturate((it.h * sY) \div 100, 100, 50000) ])
      [] it.type = "circle" ->
           Spread(it, [ r |-> Saturate((it.r * Max2(sX, sY)) \div 100, 100, 50000) ])
      [] it.type = "text" ->
           Spread(it, [ fontSizeMm |-> Saturate((it.fontSizeMm * Max2(sX, sY)) \div 100, 300, 4000) ])
      [] it.type = "ornament" ->
           Spread(it, [ scaleMm |-> Saturate((it.scaleMm * Max2(sX, sY)) \div 100, 500, 12000) ])
      [] OTHER -> it

Committed == call.op = "commitTransform"

\* C7: a gesture commit on a node leaves its item as the rule of its variant
\* says, every other attribute of the item unchanged.
C7_GestureRule ==
    [][ call'.op = "commitTransform" /\ FindIndex(items, call'.node) # 0 =>
          items'[FindIndex(items, call'.node)]
            = RuleApplied(items[FindIndex(items, call'.node)], call'.sX, call'.sY) ]_vars

\* C8: a gesture commit on the node of item i changes only item i, and gives no
\* item an attribute it did not have.
C8_OnlyTheNodesItem ==
    [][ call'.op = "commitTransform" =>
          /\ Len(items') = Len(items)
          /\ \A k \in 1..Len(items) :
                /\ items[k].id # call'.node => items'[k] = items[k]
                /\ DOMAIN items'[k] = DOMAIN items[k] ]_vars

\* C9: a gesture commit on a line leaves the scene and the selection unchanged,
\* whatever the scale factors.
C9_LineNoOp ==
    [][ /\ call'.op = "commitTransform"
        /\ FindIndex(items, call'.node) # 0
        /\ items[FindIndex(items, call'.node)].type = "line"
        => items' = items /\ selectedId' = selectedId ]_vars

\* C9 witness: a gesture with scale (2, 0.5) was committed on the node of a line
C9_Witness ==
    /\ Committed /\ call.sX = 200 /\ call.sY = 50
    /\ FindIndex(items, call.node) # 0
    /\ items[FindIndex(items, call.node)].type = "line"

\* C10: after a gesture commit, committing again on the same node with scale
\* 1.0, once or twice, leaves the scene unchanged.
C10_ClampIdempotence ==
    Committed =>
        /\ commitTransformIn(items, selectedId, call.node, 100, 100) = items
        /\ commitTransformIn(commitTransformIn(items, selectedId, call.node, 100, 100),
                             selectedId, call.node, 100, 100) = items

Distinct(its) == \A j, k \in 1..Len(its) : j # k => its[j].id # its[k].id
Created == call.op \in {"addText", "addRect", "addCircle", "addLine", "addOrnament",
                        "duplicateSelected"}

\* C11: the identifiers of the scene are pairwise distinct at every moment, and
\* an item that enters the scene carries an identifier that was never handed
\* out before, so not that of a deleted item either.
C11_IdentifierUniqueness ==
    [][ /\ Distinct(items) /\ Distinct(items')
        /\ Ids(items) \subseteq 1..(nextId - 1)
        /\ (Ids(items') \ Ids(items)) \cap (1..(nextId - 1)) = {}
        /\ nextId' >= nextId ]_vars

\* C11 witness: item 1 was deleted and an item was created after it
C11_Witness == Created /\ items # <<>> /\ ~(1 \in Ids(items)) /\ Distinct(items)

Edited == call.op \in {"editFontSize", "editStrokeWidth", "editScaleMm"}
Dragged == call.op = "onDragEnd"
Moved == call.op = "moveSelected"
IdTags(its) == {<<its[k].id, its[k].type>> : k \in 1..Len(its)}

\* C12: attribute edit, gesture commit and drag leave the identifier and the
\* variant tag of the item at every position as they were, reorder leaves every
\* identifier with its variant tag, and none of them changes the number of items.
C12_IdentifierStability ==
    [][ /\ call'.op \in {"editFontSize", "editStrokeWidth", "editScaleMm",
                         "commitTransform", "onDragEnd"}
           => /\ Len(items') = Len(items)
              /\ \A k \in 1..Len(items) :
                    items'[k].id = items[k].id /\ items'[k].type = items[k].type
        /\ call'.op = "moveSelected"
           => Len(items') = Len(items) /\ IdTags(items') = IdTags(items) ]_vars

\* C12 witness: the second of two items was sent to the back after an edit
C12_Witness ==
    /\ Moved /\ call.dir = "back" /\ edits > 0
    /\ Len(items) = 2 /\ items[1].id = 2 /\ selectedId = 2

\* the scene without the item of that identifier, the others in their order
Without(its, id) == SelectSeq(its, LAMBDA i : i.id # id)
ItemOf(its, id) == CHOOSE i \in Range(its) : i.id = id

\* C13: moveSelected('front') puts the selected item last and moveSelected('back')
\* puts it first, the other items in their order; duplicateSelected appends the
\* copy behind the unchanged scene; deleteSelected leaves the remaining items in
\* their order.
C13_StackingOrder ==
    [][ /\ call'.op = "moveSelected" /\ selectedId \in Ids(items) /\ call'.dir = "front"
           => items' = Without(items, selectedId) \o <<ItemOf(items, selectedId)>>
        /\ call'.op = "moveSelected" /\ selectedId \in Ids(items) /\ call'.dir = "back"
           => items' = <<ItemOf(items, selectedId)>> \o Without(items, selectedId)
        /\ call'.op = "duplicateSelected" /\ selectedId \in Ids(items)
           => /\ Len(items') = Len(items) + 1
              /\ SubSeq(items', 1, Len(items)) = items
              /\ ~(items'[Len(items')].id \in Ids(items))
              /\ items'[Len(items')].type = ItemOf(items, selectedId).type
        /\ call'.op = "deleteSelected" /\ selectedId \in Ids(items)
           => items' = Without(items, selectedId) ]_vars

\* C13 witness: the middle one of three items was sent to the back, the other
\* two still in their order
C13_Witness ==
    /\ Moved /\ call.dir = "back" /\ Len(items) = 3
    /\ items[1].id = selectedId
    /\ items[2].id < items[1].id /\ items[1].id < items[3].id

\* the identifiers that match no item of the scene: no selection, the next
\* identifier, and those of deleted items
UnknownIds == ({Null} \cup (1..nextId)) \ Ids(items)

\* C14: an update, delete, reorder or gesture commit whose identifier matches no
\* item of the scene, or that runs with nothing selected, leaves the item
\* sequence exactly as it was.
C14_UnknownIdNoOp ==
    [][ /\ \A id \in UnknownIds :
              /\ \A v \in NumberInputs : updateSelected(items, id, fontSizePatch(v)) = items
              /\ FilterOut(items, id) = items
              /\ \A d \in {"front", "back"} : moveSelectedIn(items, id, d) = items
              /\ \A s \in ScalePairs, sel \in Ids(items) \cup {Null} :
                    commitTransformIn(items, sel, id, s[1], s[2]) = items
        /\ /\ call'.op \in {"deleteSelected", "moveSelected", "duplicateSelected",
                            "editFontSize", "editStrokeWidth", "editScaleMm"}
           /\ selectedId \in UnknownIds
           => items' = items
        /\ /\ call'.op = "commitTransform"
           /\ (call'.node \in UnknownIds \/ selectedId \in UnknownIds)
           => items' = items ]_vars

\* C14 witness: a gesture was committed on the node of a deleted item, the scene
\* not empty
C14_Witness ==
    /\ Committed /\ items # <<>> /\ ~(call.node \in Ids(items))
    /\ call.sX # 100

\* the kind of primitive a variant is exported as
PrimitiveKind(type) ==
    CASE type = "text" -> "text"
      [] type = "rect" -> "rect"
      [] type = "circle" -> "circle"
      [] type = "line" -> "line"
      [] type = "ornament" -> "path"

\* where a primitive is placed
AnchorOf(part) ==
    CASE part.tag \in {"text", "rect"} -> <<part.x, part.y>>
      [] part.tag = "circle" -> <<part.cx, part.cy>>
      [] part.tag = "line" -> <<part.x1, part.y1>>
      [] part.tag = "path" -> part.translate

\* C15: the document has one primitive per item, the k-th primitive being of the
\* kind of the k-th item's variant and placed at that item; the empty scene
\* validates ok and its document has no primitive.
C15_OnePrimitivePerItem ==
    /\ Len(exportSvgMm(items).parts) = Len(items)
    /\ \A k \in 1..Len(items) :
          /\ exportSvgMm(items).parts[k].tag = PrimitiveKind(items[k].type)
          /\ AnchorOf(exportSvgMm(items).parts[k]) = <<items[k].x, items[k].y>>
    /\ items = <<>> => validateAll(items).ok /\ exportSvgMm(items).parts = <<>>
    /\ Exported /\ items = <<>> => out.alert = "generated" /\ out.log[1].parts = <<>>
    /\ Generated => out.log = <<exportSvgMm(items)>>

\* C15 witness: an ornament behind a text, exported as a path and then a text
C15_Witness ==
    /\ Generated /\ Len(items) = 2
    /\ items[1].type = "ornament" /\ items[2].type = "text"
    /\ out.log[1].parts[1].tag = "path" /\ out.log[1].parts[2].tag = "text"

Rotated(it) == "rotation" \in DOMAIN it /\ it.rotation # 0
\* the rotation transforms a primitive carries
RotationsOf(part) == IF "rot" \in DOMAIN part THEN part.rot ELSE <<>>

\* C16: the primitive of a text, rectangle or ornament with a non-zero rotation
\* carries the rotation by that angle about the item's (x, y); the primitive of
\* a circle or a line carries no rotation.
C16_RotationEmitted ==
    \A k \in 1..Len(items) :
        /\ items[k].type \in {"text", "rect", "ornament"} /\ Rotated(items[k])
           => RotationsOf(exportSvgMm(items).parts[k])
                = <<[rotate |-> items[k].rotation, cx |-> items[k].x, cy |-> items[k].y]>>
        /\ items[k].type \in {"circle", "line"}
           => RotationsOf(exportSvgMm(items).parts[k]) = <<>>

HasStrokeWidth(it) == "strokeWidthMm" \in DOMAIN it /\ it.strokeWidthMm > 0
HasStrokeColour(it) == "stroke" \in DOMAIN it /\ it.stroke # "undefined"

\* C17: a primitive has stroke attributes exactly when its item has a
\* strokeWidthMm greater than 0; they are then the item's colour, black when it
\* has none, and the item's width.
C17_StrokeEmitted ==
    \A k \in 1..Len(items) :
        /\ (exportSvgMm(items).parts[k].sw # <<>>) <=> HasStrokeWidth(items[k])
        /\ HasStrokeWidth(items[k])
           => exportSvgMm(items).parts[k].sw
                = <<[ stroke |-> IF HasStrokeColour(items[k]) THEN items[k].stroke ELSE "#000000",
                      strokeWidth |-> items[k].strokeWidthMm ]>>

\* C17 witness: a text with a stroke width and no stroke colour, exported in black
C17_Witness ==
    /\ Generated /\ Len(items) = 1 /\ items[1].type = "text"
    /\ HasStrokeWidth(items[1]) /\ ~("stroke" \in DOMAIN items[1])
    /\ out.log[1].parts[1].sw = <<[stroke |-> "#000000", strokeWidth |-> 50]>>

\* the entity of a reserved character
EntityOf(ch) ==
    CASE ch = "&" -> <<"&", "a", "m", "p", ";">>
      [] ch = "<" -> <<"&", "l", "t", ";">>
      [] ch = ">" -> <<"&", "g", "t", ";">>
      [] ch = "\"" -> <<"&", "q", "u", "o", "t", ";">>
      [] ch = "'" -> <<"&", "a", "p", "o", "s", ";">>
Reserved == {"&", "<", ">", "\"", "'"}
Entities == {EntityOf(ch) : ch \in Reserved}

\* the string with each reserved character replaced by its entity, once
RECURSIVE Escaped(_)
Escaped(s) ==
    IF s = <<>> THEN <<>>
    ELSE (IF Head(s) \in Reserved THEN EntityOf(Head(s)) ELSE <<Head(s)>>) \o Escaped(Tail(s))

CountIn(s, chars) == Cardinality({k \in 1..Len(s) : s[k] \in chars})
\* an entity starts at position k of s
EntityAt(s, k) == \E e \in Entities : k + Len(e) - 1 <= Len(s) /\ SubSeq(s, k, k + Len(e) - 1) = e

TextPayload(part) == part.content

\* C18: the text payload of an exported text is its text with each reserved
\* character replaced by its entity: it holds no raw < > " ', each of its & starts
\* an entity, and it has one & per reserved character of the text (none escaped
\* twice).
C18_Escaping ==
    \A k \in 1..Len(items) :
        items[k].type = "text" =>
            /\ TextPayload(exportSvgMm(items).parts[k]) = Escaped(items[k].text)
            /\ CountIn(TextPayload(exportSvgMm(items).parts[k]), {"<", ">", "\"", "'"}) = 0
            /\ \A j \in 1..Len(TextPayload(exportSvgMm(items).parts[k])) :
                  TextPayload(exportSvgMm(items).parts[k])[j] = "&"
                  => EntityAt(TextPayload(exportSvgMm(items).parts[k]), j)
            /\ CountIn(TextPayload(exportSvgMm(items).parts[k]), {"&"})
                 = CountIn(items[k].text, Reserved)

\* C18 witness: the text 5 < 10 & "ok" was exported with its three reserved
\* characters as entities
C18_Witness ==
    /\ Generated /\ Len(items) = 1 /\ items[1].type = "text"
    /\ items[1].text = <<"5", " ", "<", " ", "1", "0", " ", "&", " ", "\"", "o", "k", "\"">>
    /\ out.log[1].parts[1].content
         = <<"5", " ", "&", "l", "t", ";", " ", "1", "0", " ", "&", "a", "m", "p", ";", " ",
             "&", "q", "u", "o", "t", ";", "o", "k", "&", "q", "u", "o", "t", ";">>

\* C19: an export, generated or refused, leaves the item sequence, every
\* attribute of every item and the selection as they were.
C19_ExportReadOnly ==
    [][ call'.op = "handleExport"
        => /\ items' = items
           /\ selectedId' = selectedId
           /\ out'.alert \in {"generated", "refused"} ]_vars

\* C19 witness: the export of a scene whose selected item lies outside was
\* refused, the item still selected and still outside
C19_Witness ==
    /\ Refused /\ selectedId \in Ids(items)
    /\ ~ContainmentRule(ItemOf(items, selectedId))

\* the drag delta of a line in 1/100 mm: its node is laid out at (0, 0), so the
\* node's position at the end of the drag is the delta, 4 device pixels a millimetre
DeltaMm(px) == px \div 4

\* C20: a drag-end on a line moves both endpoints by the drag delta, so the
\* vector from the first endpoint to the second is as before.
C20_LineDraggedWhole ==
    [][ /\ call'.op = "onDragEnd"
        /\ FindIndex(items, call'.node) # 0
        /\ items[FindIndex(items, call'.node)].type = "line"
        => /\ items'[FindIndex(items, call'.node)].x
                = items[FindIndex(items, call'.node)].x + DeltaMm(call'.px)
           /\ items'[FindIndex(items, call'.node)].y
                = items[FindIndex(items, call'.node)].y + DeltaMm(call'.py)
           /\ items'[FindIndex(items, call'.node)].x2
                = items[FindIndex(items, call'.node)].x2 + DeltaMm(call'.px)
           /\ items'[FindIndex(items, call'.node)].y2
                = items[FindIndex(items, call'.node)].y2 + DeltaMm(call'.py)
           /\ items'[FindIndex(items, call'.node)].x2 - items'[FindIndex(items, call'.node)].x
                = items[FindIndex(items, call'.node)].x2 - items[FindIndex(items, call'.node)].x
           /\ items'[FindIndex(items, call'.node)].y2 - items'[FindIndex(items, call'.node)].y
                = items[FindIndex(items, call'.node)].y2 - items[FindIndex(items, call'.node)].y ]_vars

\* C21: the selection is null or the identifier of an item of the scene; an add,
\* and a duplicate of a selected item, select the item they append; a delete
\* clears the selection.
C21_SelectionValid ==
    [][ /\ selectedId = 0 \/ selectedId \in Ids(items)
        /\ selectedId' = 0 \/ selectedId' \in Ids(items')
        /\ \/ call'.op \in {"addText", "addRect", "addCircle", "addLine", "addOrnament"}
           \/ call'.op = "duplicateSelected" /\ selectedId \in Ids(items)
           => /\ Len(items') = Len(items) + 1
              /\ selectedId' = items'[Len(items')].id
              /\ ~(selectedId' \in Ids(items))
        /\ call'.op = "deleteSelected" => selectedId' = 0 ]_vars

\* C21 witness: one of two items was deleted, and nothing is selected
C21_Witness ==
    /\ call.op = "deleteSelected" /\ selectedId = 0
    /\ Len(items) = 1 /\ nextId = 3

\* C22: no item of the scene has a rotation, whatever gestures were committed,
\* rotate gestures included, and no primitive of its document carries a rotate
\* transform.
C22_NoRotationStored ==
    /\ \A k \in 1..Len(items) :
          /\ ~("rotation" \in DOMAIN items[k])
          /\ RotationsOf(exportSvgMm(items).parts[k]) = <<>>
    /\ Generated => \A k \in 1..Len(out.log[1].parts) : RotationsOf(out.log[1].parts[k]) = <<>>

\* C22 witness: a gesture that turned and resized the selected text was committed
C22_Witness ==
    /\ Committed /\ call.rot = 30 /\ call.sX = 200
    /\ selectedId = call.node /\ selectedId \in Ids(items)
    /\ ItemOf(items, selectedId).type = "text"
    /\ ItemOf(items, selectedId).fontSizeMm = 2400

FontFindings(its) == {k \in 1..Len(validateAll(its).problems) :
                        validateAll(its).problems[k].msg = "Text je prilis maly"}

\* C23: no text of the scene has a fontSizeMm below 3 mm, so validateAll reports
\* containment problems only, at most one per item.
C23_FontFindingUnreachable ==
    /\ \A k \in 1..Len(items) : items[k].type = "text" => items[k].fontSizeMm >= 300
    /\ FontFindings(items) = {}
    /\ \A k \in 1..Len(validateAll(items).problems) :
          validateAll(items).problems[k].msg = "Prvek mimo gravirovaci plochu"
    /\ Len(validateAll(items).problems) <= Len(items)
    /\ Refused => out.problems = validateAll(items).problems

\* C23 witness: a text shrunk to the minimum by a gesture and lying outside was
\* refused with one finding
C23_Witness ==
    /\ Refused /\ Len(out.problems) = 1
    /\ \E k \in 1..Len(items) :
          /\ items[k].type = "text" /\ items[k].fontSizeMm = 300
          /\ ~ContainmentRule(items[k])

\* C24: every rectangle has w and h, and every circle r, from 1 mm to 500 mm.
C24_ShapeSizeBounds ==
    \A k \in 1..Len(items) :
        /\ items[k].type = "rect"
           => /\ items[k].w >= 100 /\ items[k].w <= 50000
              /\ items[k].h >= 100 /\ items[k].h <= 50000
        /\ items[k].type = "circle" => items[k].r >= 100 /\ items[k].r <= 50000

\* C24 witness: a gesture with scale factors -1 and 0 was committed on the
\* selected rectangle, now 1 mm by 1 mm
C24_Witness ==
    /\ Committed /\ call.sX = -100 /\ call.sY = 0
    /\ selectedId = call.node /\ selectedId \in Ids(items)
    /\ ItemOf(items, selectedId).type = "rect"
    /\ ItemOf(items, selectedId).w = 100 /\ ItemOf(items, selectedId).h = 100

====
